---- MODULE Spec2Model ----
(***************************************************************************)
(* Model of the trust-fingerprint scripts (scripts/exchange-hash.mjs,      *)
(* scripts/attest-exchange.mjs), of the trust decision template            *)
(* (references/patterns.md, evaluateTrust), of scripts/intuition-         *)
(* verify.mjs, of scripts/create-exchange-attestation.mjs, of the          *)
(* argument handling of the command-line scripts, of the read loop over    *)
(* the message store and of the scripts that write to the chain            *)
(* (intuition-quickstart-v3.mjs, intuition-stake.mjs, intuition-redeem.mjs).*)
(*                                                                         *)
(* Units.  Timestamps are whole minutes since the epoch (the code holds    *)
(* milliseconds; every input drawn here is a whole minute).  The rounded   *)
(* metrics are kept as the integer the code rounds to:                     *)
(*   avgLatency          tenths of a minute   (Math.round(x * 10) / 10)    *)
(*   gapSurvival         hundredths           (Math.round(x * 100) / 100)  *)
(*   temporalConsistency hundredths           (Math.round(x * 100) / 100)  *)
(*   lengthVariance      units                (Math.round(x))              *)
(* Strings that the code compares, sorts or joins are sequences of         *)
(* character codes.  Stakes are hundredths of a $TRUST.                    *)
(***************************************************************************)
EXTENDS Integers, Sequences, FiniteSets, TLC

VARIABLES
    agents,      \* exchange-hash.mjs: the --agents pair, in argument order
    tz,          \* minutes the host's local time is ahead of UTC
    transcript,  \* the records of the message store, in the order read
    messages,    \* the `messages` array the program holds
    pc,          \* position of the exchange-hash run
    rhythm,      \* result of computeRhythm, or None
    hash,        \* result of createExchangeHash, or None
    exitCode,    \* process.exit code of exchange-hash.mjs, or -1 while running
    peer,        \* the other party's run on the same transcript, or None
    attest,      \* attest-exchange.mjs --compute: outcome of computeExchangeHash
    chain,       \* what the MultiVault contract answers (the signal read)
    threshold,   \* evaluateTrust's threshold argument
    evalPc,      \* position of evaluateTrust
    evalReads,   \* contract reads evaluateTrust has made, in order
    verdict,     \* value evaluateTrust returned, or None
    verifyPc,    \* position of intuition-verify.mjs main
    verifyReads, \* contract reads intuition-verify.mjs has made, in order
    verifyOut,   \* intuition-verify.mjs: atomExists, tripleId, tripleExists, stakedFor
    verifyExit,  \* exit code of intuition-verify.mjs, or -1 while running
    env,         \* a script run: the script, its arguments and what it finds
    runPc,       \* position of that run
    runLog,      \* what the run has printed, read, signed and submitted, in order
    runExit      \* exit code of that run, or -1 while running

hashVars == <<agents, tz, transcript, messages, pc, rhythm, hash, exitCode, peer, attest>>
trustVars == <<chain, threshold, evalPc, evalReads, verdict, verifyPc, verifyReads, verifyOut, verifyExit>>
runVars == <<env, runPc, runLog, runExit>>
vars == <<hashVars, trustVars, runVars>>

None == [none |-> TRUE]

(***************************************************************************)
(* Bounds of the model.                                                    *)
(***************************************************************************)
MaxMsgs == 3

(***************************************************************************)
(* Input domains.                                                          *)
(***************************************************************************)
\* "a" and "ab" as character codes
NameA == <<97>>
NameAB == <<97, 98>>
\* given out of order, and the second is a proper prefix of the first
AgentPairs == {<<NameAB, NameA>>}
\* 22:00 and 24:00 of day 0, 02:01 of day 1 (UTC): intervals of 120, 121 and 241
Times == {1320, 1440, 1561}
BodyLengths == {0, 3}
TimeZones == {0, 120}

MessagesOf(pair) == [from : {pair[1], pair[2]}, time : Times, length : BodyLengths]
TranscriptsOf(pair) == UNION {[1..n -> MessagesOf(pair)] : n \in 0..MaxMsgs}

(***************************************************************************)
(* Arithmetic helpers.                                                     *)
(***************************************************************************)
RECURSIVE SumSeq(_)
SumSeq(s) == IF s = <<>> THEN 0 ELSE Head(s) + SumSeq(Tail(s))

SumSquares(s) == SumSeq([i \in 1..Len(s) |-> s[i] * s[i]])

\* Math.round of the non-negative rational num/den: half rounds up
MathRound(num, den) == (2 * num + den) \div (2 * den)

Max(a, b) == IF a >= b THEN a ELSE b

\* n^2 times the population variance of s (n = Len(s)):
\* reduce((sum, l) => sum + Math.pow(l - avg, 2), 0) / n  =  VarianceNum / n^2
VarianceNum(s) == Len(s) * SumSquares(s) - SumSeq(s) * SumSeq(s)

(***************************************************************************)
(* exchange-hash.mjs: computeRhythm                                        *)
(***************************************************************************)
GapThreshold == 120
HourVarianceNorm == 144

\* Array.prototype.sort((a, b) => a.time - b.time): stable, ascending
InsertByTime(m, s) ==
    LET k == Cardinality({i \in 1..Len(s) : s[i].time <= m.time})
    IN  SubSeq(s, 1, k) \o <<m>> \o SubSeq(s, k + 1, Len(s))

\* faulty variant: the array is analysed in the order given
SortByTimeOmitted(s) == s

RECURSIVE SortByTime(_)
SortByTime(s) ==
    IF s = <<>> THEN <<>>
    ELSE InsertByTime(s[Len(s)], SortByTime(SubSeq(s, 1, Len(s) - 1)))

\* Date.prototype.getHours(): the hour of day in the host's local time
getHours(t, zone) == ((t + zone) \div 60) % 24

\* faulty variant: every adjacent pair counts as a response
LatenciesEveryPair(sorted) ==
    [i \in 1..(Len(sorted) - 1) |-> sorted[i + 1].time - sorted[i].time]

\* the latencies pushed by the loop of lines 90-98, in order
Latencies(sorted) ==
    LET idx == {i \in 2..Len(sorted) : sorted[i].from # sorted[i - 1].from}
        RECURSIVE Collect(_)
        Collect(i) ==
            IF i > Len(sorted) THEN <<>>
            ELSE (IF i \in idx THEN <<sorted[i].time - sorted[i - 1].time>> ELSE <<>>)
                 \o Collect(i + 1)
    IN  Collect(2)

\* faulty variant: an interval of exactly two hours is a gap too
GapsInclusive(sorted) ==
    LET RECURSIVE Collect(_)
        Collect(i) ==
            IF i > Len(sorted) THEN <<>>
            ELSE (IF sorted[i].time - sorted[i - 1].time >= GapThreshold
                  THEN <<[duration |-> sorted[i].time - sorted[i - 1].time,
                          survived |-> TRUE]>>
                  ELSE <<>>)
                 \o Collect(i + 1)
    IN  Collect(2)

\* faulty variant: a gap is survived only when the message that ends it is
\* answered by a further one
GapsSurvivedIfAnswered(sorted) ==
    LET RECURSIVE Collect(_)
        Collect(i) ==
            IF i > Len(sorted) THEN <<>>
            ELSE (IF sorted[i].time - sorted[i - 1].time > GapThreshold
                  THEN <<[duration |-> sorted[i].time - sorted[i - 1].time,
                          survived |-> i < Len(sorted)]>>
                  ELSE <<>>)
                 \o Collect(i + 1)
    IN  Collect(2)

\* the gaps pushed by the loop of lines 90-98: {duration, survived}
Gaps(sorted) ==
    LET RECURSIVE Collect(_)
        Collect(i) ==
            IF i > Len(sorted) THEN <<>>
            ELSE (IF sorted[i].time - sorted[i - 1].time > GapThreshold
                  THEN <<[duration |-> sorted[i].time - sorted[i - 1].time,
                          survived |-> TRUE]>>
                  ELSE <<>>)
                 \o Collect(i + 1)
    IN  Collect(2)

\* the record computeRhythm returns for `msgs` on a host in time zone `zone`
computeRhythm(msgs, zone) ==
    IF Len(msgs) < 2
    THEN [responseLatencies |-> <<>>, avgLatency |-> 0, gapSurvival |-> 0,
          lengthVariance |-> 0, temporalConsistency |-> 0,
          messageCount |-> Len(msgs)]
    ELSE
      LET sorted == SortByTime(msgs)
          n == Len(sorted)
          latencies == Latencies(sorted)
          gaps == Gaps(sorted)
          lengths == [i \in 1..n |-> sorted[i].length]
          hours == [i \in 1..n |-> getHours(sorted[i].time, zone)]
          survived == Cardinality({i \in 1..Len(gaps) : gaps[i].survived})
      IN  [responseLatencies |-> latencies,
           avgLatency |-> IF Len(latencies) > 0
                          THEN MathRound(10 * SumSeq(latencies), Len(latencies))
                          ELSE 0,
           gapSurvival |-> IF Len(gaps) > 0
                           THEN MathRound(100 * survived, Len(gaps))
                           ELSE 100,
           lengthVariance |-> MathRound(VarianceNum(lengths), n * n),
           temporalConsistency |->
               MathRound(100 * Max(0, HourVarianceNorm * n * n - VarianceNum(hours)),
                         HourVarianceNorm * n * n),
           messageCount |-> n,
           gapsCount |-> Len(gaps)]

\* what computeRhythm leaves in the caller's array: sort() sorts in place
ArrayAfterComputeRhythm(msgs) == IF Len(msgs) < 2 THEN msgs ELSE SortByTime(msgs)

(***************************************************************************)
(* exchange-hash.mjs: createExchangeHash                                   *)
(***************************************************************************)
Colon == 58
CommitmentHexLen == 16
RhythmSigHexLen == 16
Sha256HexLen == 64

\* a < b as strings (Array.prototype.sort's default order: by code unit,
\* a proper prefix first)
RECURSIVE StrLess(_, _)
StrLess(a, b) ==
    IF b = <<>> THEN FALSE
    ELSE IF a = <<>> THEN TRUE
    ELSE IF Head(a) # Head(b) THEN Head(a) < Head(b)
    ELSE StrLess(Tail(a), Tail(b))

\* faulty variant: the pair is used in argument order
SortAgentsOmitted(agent1, agent2) == <<agent1, agent2>>

\* [agent1, agent2].sort()
SortAgents(agent1, agent2) ==
    IF StrLess(agent2, agent1) THEN <<agent2, agent1>> ELSE <<agent1, agent2>>

\* sortedAgents.join(':')
JoinAgents(pair) == pair[1] \o <<Colon>> \o pair[2]

\* Date.prototype.toISOString(): the UTC calendar fields of the instant
toISOString(t) == [day |-> t \div 1440, hh |-> (t \div 60) % 24, mm |-> t % 60]

\* createHash('sha256').update(..)...digest('hex'): 64 hex digits that stand
\* for the concatenated input (no two inputs of the model collide)
Sha256Hex(input) == [hexLen |-> Sha256HexLen, of |-> input]

\* faulty variant: the digest is not cut
SliceHexOmitted(h, n) == h

\* String.prototype.slice(0, n) of a hex digest
SliceHex(h, n) == [hexLen |-> IF n < h.hexLen THEN n ELSE h.hexLen, of |-> h.of]

\* '0x' + hex
Prefix0x(h) == [prefix |-> "0x", hexLen |-> h.hexLen, of |-> h.of]

Commitment(agent1, agent2, firstMsg) ==
    SliceHex(Sha256Hex(<<JoinAgents(SortAgents(agent1, agent2)),
                         toISOString(firstMsg.time)>>),
             CommitmentHexLen)

\* faulty variant: the message count is hashed along
RhythmSigWithCount(r) ==
    [hexLen |-> RhythmSigHexLen,
     of |-> <<<<"avgLatency", r.avgLatency>>,
              <<"gapSurvival", r.gapSurvival>>,
              <<"lengthVariance", r.lengthVariance>>,
              <<"temporalConsistency", r.temporalConsistency>>,
              <<"messageCount", r.messageCount>>>>]

\* JSON.stringify of the object literal of lines 129-134: the four keys in
\* order, each with the decimal text of its number (one text per number)
RhythmSig(r) ==
    SliceHex(Sha256Hex(<<<<"avgLatency", r.avgLatency>>,
                         <<"gapSurvival", r.gapSurvival>>,
                         <<"lengthVariance", r.lengthVariance>>,
                         <<"temporalConsistency", r.temporalConsistency>>>>),
             RhythmSigHexLen)

createExchangeHash(agent1, agent2, r, firstMsg, lastMsg) ==
    LET commitment == Commitment(agent1, agent2, firstMsg)
        rhythmSig == RhythmSig(r)
        exchangeHash == Sha256Hex(<<commitment, rhythmSig, toISOString(lastMsg.time)>>)
    IN  [exchangeHash |-> Prefix0x(exchangeHash),
         commitment |-> Prefix0x(commitment),
         rhythmSignature |-> Prefix0x(rhythmSig),
         agents |-> SortAgents(agent1, agent2),
         began |-> toISOString(firstMsg.time),
         lastActivity |-> toISOString(lastMsg.time)]

(***************************************************************************)
(* exchange-hash.mjs: main, from the end of the read loop (line 178)       *)
(***************************************************************************)
\* what main leaves behind for the array `msgs` and the --agents `pair`
MainResult(msgs, pair, zone) ==
    IF Len(msgs) = 0
    THEN [pc |-> "exit", exitCode |-> 0, messages |-> msgs, rhythm |-> None, hash |-> None]
    ELSE LET sorted == SortByTime(msgs)
             r == computeRhythm(sorted, zone)
         IN  [pc |-> "reported", exitCode |-> 0,
              messages |-> ArrayAfterComputeRhythm(sorted), rhythm |-> r,
              hash |-> createExchangeHash(pair[1], pair[2], r, sorted[1], sorted[Len(sorted)])]

MainExchangeHash ==
    /\ pc = "start"
    /\ LET res == MainResult(messages, agents, tz)
       IN  /\ pc' = res.pc
           /\ exitCode' = res.exitCode
           /\ messages' = res.messages
           /\ rhythm' = res.rhythm
           /\ hash' = res.hash
    /\ UNCHANGED <<agents, tz, transcript, peer, attest, trustVars, runVars>>

\* a direct call computeRhythm(messages) on the array as read
CallComputeRhythm ==
    /\ pc = "start"
    /\ pc' = "called"
    /\ rhythm' = computeRhythm(messages, tz)
    /\ messages' = ArrayAfterComputeRhythm(messages)
    /\ UNCHANGED <<agents, tz, transcript, hash, exitCode, peer, attest, trustVars, runVars>>

(***************************************************************************)
(* attest-exchange.mjs: computeExchangeHash, from the end of its read loop  *)
(* (line 82), and the use main makes of its result (lines 102-105)         *)
(***************************************************************************)
\* line 82 throws; otherwise the function ends at line 87 without a return
\* statement, so the promise resolves to undefined
computeExchangeHash(msgs) ==
    IF Len(msgs) < 2
    THEN [threw |-> "Not enough messages", returned |-> "nothing"]
    ELSE [threw |-> "", returned |-> "undefined"]

\* main, lines 100-106: hashData.exchangeHash of undefined is a TypeError;
\* either error ends in main().catch(console.error)
AttestCompute ==
    /\ pc = "start"
    /\ pc' = "attested"
    /\ LET res == computeExchangeHash(messages)
       IN  attest' = IF res.threw # "" THEN [threw |-> res.threw, exchangeHash |-> None]
                     ELSE IF res.returned = "undefined"
                     THEN [threw |-> "TypeError", exchangeHash |-> None]
                     ELSE [threw |-> "", exchangeHash |-> res.returned]
    /\ messages' = IF Len(messages) < 2 THEN messages ELSE SortByTime(messages)
    /\ UNCHANGED <<agents, tz, transcript, rhythm, hash, exitCode, peer, trustVars, runVars>>

(***************************************************************************)
(* The other party: the same program run on the same transcript, read in   *)
(* another order, with the agents given in the other order, or on a host   *)
(* in another time zone.                                                   *)
(***************************************************************************)
Reordered(p) == [i \in 1..Len(transcript) |-> transcript[p[i]]]

peerFrame == <<agents, tz, transcript, messages, pc, rhythm, hash, exitCode, attest, trustVars, runVars>>

\* the peer calls computeRhythm on the records as its own store lists them
PeerReordered ==
    /\ pc = "called"
    /\ peer = None
    /\ \E p \in Permutations(1..Len(transcript)) :
          peer' = [kind |-> "reordered", sameOrder |-> Reordered(p) = transcript,
                   rhythm |-> computeRhythm(Reordered(p), tz)]
    /\ UNCHANGED peerFrame

\* the peer runs exchange-hash.mjs with --agents in the other order
PeerSwapped ==
    /\ pc = "reported"
    /\ peer = None
    /\ LET res == MainResult(transcript, <<agents[2], agents[1]>>, tz)
       IN  peer' = [kind |-> "swapped", rhythm |-> res.rhythm, hash |-> res.hash]
    /\ UNCHANGED peerFrame

\* the peer runs exchange-hash.mjs on a host in another time zone
PeerOtherZone ==
    /\ pc = "reported"
    /\ peer = None
    /\ \E z \in TimeZones \ {tz} :
          LET res == MainResult(transcript, agents, z)
          IN  peer' = [kind |-> "otherzone", rhythm |-> res.rhythm, hash |-> res.hash]
    /\ UNCHANGED peerFrame

(***************************************************************************)
(* exchange-hash.mjs: main, the read loop over the message store (lines    *)
(* 156-176), and parseMessage.  A file of the store is given by its        *)
(* From:, To: and Time: headers, its body, and whether readFile succeeds;  *)
(* it is named <from>-to-<to>.md, the pattern the filter of lines 157-163  *)
(* looks for.                                                              *)
(***************************************************************************)
MaxFiles == 2

\* "c", a third party
NameC == <<99>>
\* "x" and "z": two bodies of the same length
BodyX == <<120>>
BodyZ == <<122>>
\* 22:00 of day 0 and 02:01 of day 1 (UTC)
FileTimes == {1320, 1561}

\* a file both agents or a third party take part in; one file that cannot
\* be read (its content never reaches the program)
ReadableFiles ==
    [from : {NameA, NameAB}, to : {NameA, NameAB, NameC}, time : FileTimes,
     body : {BodyX, BodyZ}, readable : {TRUE}]
UnreadableFile ==
    [from |-> NameA, to |-> NameAB, time |-> 1320, body |-> BodyX, readable |-> FALSE]
StoreFiles == {f \in ReadableFiles : f.from # f.to} \cup {UnreadableFile}
Stores == UNION {[1..n -> StoreFiles] : n \in 0..MaxFiles}

\* String.prototype.includes
Contains(str, sub) ==
    \E i \in 0..(Len(str) - Len(sub)) : SubSeq(str, i + 1, i + Len(sub)) = sub

\* String.prototype.endsWith
EndsWith(str, suffix) ==
    /\ Len(str) >= Len(suffix)
    /\ SubSeq(str, Len(str) - Len(suffix) + 1, Len(str)) = suffix

\* "to-", "-to-", ".md", "last-read"
StrTo == <<116, 111, 45>>
StrDashTo == <<45, 116, 111, 45>>
StrMd == <<46, 109, 100>>
StrLastRead == <<108, 97, 115, 116, 45, 114, 101, 97, 100>>

FileName(f) == f.from \o StrDashTo \o f.to \o StrMd

\* the filter of lines 157-163
IsMessageFile(name, agent1, agent2) ==
    /\ \/ Contains(name, StrTo \o agent1)
       \/ Contains(name, StrTo \o agent2)
       \/ Contains(name, agent1 \o <<45>> \o StrTo)
       \/ Contains(name, agent2 \o <<45>> \o StrTo)
    /\ EndsWith(name, StrMd)
    /\ ~Contains(name, StrLastRead)

\* faulty variant: the body is summed up instead of measured
BodyChecksum(body) == SumSeq(body)

\* body.length
BodyLength(body) == Len(body)

\* parseMessage: the record, or null (None) when anything throws
parseMessage(f) ==
    IF ~f.readable THEN None
    ELSE [from |-> f.from, to |-> f.to, time |-> f.time, length |-> BodyLength(f.body)]

\* lines 169-172: both agents among the participants, by String.includes
BothTakePart(msg, agent1, agent2) ==
    LET participants == {msg.from, msg.to}
    IN  /\ \E p \in participants : Contains(p, agent1)
        /\ \E p \in participants : Contains(p, agent2)

\* the `messages` array after the loop of lines 166-176
RECURSIVE ReadLoop(_, _, _)
ReadLoop(files, agent1, agent2) ==
    IF files = <<>> THEN <<>>
    ELSE LET f == files[Len(files)]
             before == ReadLoop(SubSeq(files, 1, Len(files) - 1), agent1, agent2)
             msg == parseMessage(f)
         IN  IF ~IsMessageFile(FileName(f), agent1, agent2) THEN before
             ELSE IF msg = None THEN before
             ELSE IF BothTakePart(msg, agent1, agent2) THEN Append(before, msg)
             ELSE before

\* main, lines 156-176: the store is listed and read
ReadStore ==
    /\ pc = "reading"
    /\ messages' = ReadLoop(env.files, agents[1], agents[2])
    /\ transcript' = messages'
    /\ pc' = "start"
    /\ UNCHANGED <<agents, tz, rhythm, hash, exitCode, peer, attest, trustVars, runVars>>

\* the other party's copy of message k has other words of the same length
OtherBody(body) == IF body = BodyX THEN BodyZ ELSE BodyX
Rebodied(files, k) == [files EXCEPT ![k].body = OtherBody(@)]

PeerRun(kind, files) ==
    LET msgs == ReadLoop(files, agents[1], agents[2])
        res == MainResult(msgs, agents, tz)
    IN  [kind |-> kind, messages |-> res.messages, rhythm |-> res.rhythm, hash |-> res.hash]

PeerRebodied ==
    /\ pc = "reported"
    /\ peer = None
    /\ \E k \in 1..Len(env.files) :
          peer' = PeerRun("rebodied", Rebodied(env.files, k))
    /\ UNCHANGED peerFrame

\* the other party's store holds one more message between the two agents
PeerAppended ==
    /\ pc = "reported"
    /\ peer = None
    /\ \E f \in {g \in StoreFiles : g.readable /\ g.to # NameC} :
          peer' = PeerRun("appended", Append(env.files, f))
    /\ UNCHANGED peerFrame

(***************************************************************************)
(* references/patterns.md: evaluateTrust (Decision Template)               *)
(***************************************************************************)
\* 1 $TRUST, in hundredths
OneTrust == 100

ForStakes == {0, 5, 100, 200, 500}
AgainstStakes == {0, 300}
\* the default { stake: 1.0, sentiment: 0.8 } and a caller's { 0.05, 0.4 }
Thresholds == {[stake |-> 100, sentiment |-> 80], [stake |-> 5, sentiment |-> 40]}

\* the answer each read would get at the moment it is made.  A triple needs
\* its atoms and a vault holds assets only for a created triple, but the
\* existence read and the vault reads are separate calls: a triple created
\* and staked right after isTermCreated answered false leaves vault answers
\* that are not zero behind a "does not exist"
ChainStates ==
    {[atomExists |-> FALSE, tripleExists |-> FALSE, forAssets |-> 0, againstAssets |-> 0],
     [atomExists |-> TRUE, tripleExists |-> FALSE, forAssets |-> 0, againstAssets |-> 0],
     [atomExists |-> TRUE, tripleExists |-> FALSE, forAssets |-> 500, againstAssets |-> 300]}
    \cup {[atomExists |-> TRUE, tripleExists |-> TRUE, forAssets |-> f, againstAssets |-> a] :
            f \in ForStakes, a \in AgainstStakes}

\* evaluateTrust as a function of the signal its reads resolve to: the
\* template converts whatever getVault resolves to with Number(), so the two
\* amounts range over the numbers, the negative ones included
SignalStakes == {-100, 0, 200}
SignalAgainst == {-300, 0, 300}
SignalStates ==
    [atomExists : BOOLEAN, tripleExists : BOOLEAN,
     forAssets : SignalStakes, againstAssets : SignalAgainst]

\* faulty variant: the stake for is divided by the stake against alone
SentimentOverAgainst(forAmount, againstAmount) ==
    [num |-> forAmount,
     den |-> IF againstAmount # 0 THEN againstAmount ELSE OneTrust]

\* forAmount / (forAmount + againstAmount || 1), as the fraction num/den
Sentiment(forAmount, againstAmount) ==
    [num |-> forAmount,
     den |-> IF forAmount + againstAmount # 0 THEN forAmount + againstAmount ELSE OneTrust]

\* sentiment >= t, t in hundredths (the quotient num/den, den of either sign)
SentimentAtLeast(sentiment, t) ==
    IF sentiment.den > 0
    THEN sentiment.num * 100 >= t * sentiment.den
    ELSE sentiment.num * 100 <= t * sentiment.den

\* faulty variant: the stake gate is strict
FinalVerdictStrict(forAmount, againstAmount, th) ==
    LET sentiment == Sentiment(forAmount, againstAmount)
    IN  [trusted |-> forAmount > th.stake /\ SentimentAtLeast(sentiment, th.sentiment),
         stake |-> forAmount,
         sentiment |-> sentiment,
         contested |-> againstAmount > 0]

\* faulty variant: contested is taken from the stake for the claim
FinalVerdictContestedByFor(forAmount, againstAmount, th) ==
    LET sentiment == Sentiment(forAmount, againstAmount)
    IN  [trusted |-> forAmount >= th.stake /\ SentimentAtLeast(sentiment, th.sentiment),
         stake |-> forAmount,
         sentiment |-> sentiment,
         contested |-> forAmount > 0]

\* the object of the final return statement
FinalVerdict(forAmount, againstAmount, th) ==
    LET sentiment == Sentiment(forAmount, againstAmount)
    IN  [trusted |-> forAmount >= th.stake /\ SentimentAtLeast(sentiment, th.sentiment),
         stake |-> forAmount,
         sentiment |-> sentiment,
         contested |-> againstAmount > 0]

\* faulty variant: the first return is missing
IdentityGateOmitted(exists) == None

\* if (!exists) return { trusted: false, reason: 'no on-chain identity' }
IdentityGate(exists) ==
    IF exists THEN None ELSE [trusted |-> FALSE, reason |-> "no on-chain identity"]

\* faulty variant: the second return is missing
ClaimGateOmitted(tripleExists) == None

\* if (!tripleExists) return { trusted: false, reason: 'no identity claim' }
ClaimGate(tripleExists) ==
    IF tripleExists THEN None ELSE [trusted |-> FALSE, reason |-> "no identity claim"]

\* calculateAtomId, isTermCreated(atomId) and the first return
EvalCheckIdentity ==
    /\ evalPc = "start"
    /\ \/ /\ evalReads' = evalReads \o <<"calculateAtomId", "isTermCreated(atom)">>
          /\ verdict' = IdentityGate(chain.atomExists)
          /\ evalPc' = IF verdict' = None THEN "claim" ELSE "returned"
       \/ \* a contract read rejects: the promise evaluateTrust returned rejects
          /\ evalReads' = evalReads \o <<"calculateAtomId">>
          /\ evalPc' = "rejected"
          /\ UNCHANGED verdict
    /\ UNCHANGED <<chain, threshold, verifyPc, verifyReads, verifyOut, verifyExit, hashVars, runVars>>

\* calculateTripleId, isTermCreated(tripleId) and the second return
EvalCheckClaim ==
    /\ evalPc = "claim"
    /\ \/ /\ evalReads' = evalReads \o <<"calculateTripleId", "isTermCreated(triple)">>
          /\ verdict' = ClaimGate(chain.tripleExists)
          /\ evalPc' = IF verdict' = None THEN "stake" ELSE "returned"
       \/ /\ evalReads' = evalReads \o <<"calculateTripleId">>
          /\ evalPc' = "rejected"
          /\ UNCHANGED verdict
    /\ UNCHANGED <<chain, threshold, verifyPc, verifyReads, verifyOut, verifyExit, hashVars, runVars>>

\* the two vault reads, the sentiment and the final return
EvalStakeAndSentiment ==
    /\ evalPc = "stake"
    /\ \/ /\ evalReads' = evalReads \o <<"getVault(triple)", "getCounterIdFromTripleId",
                                          "getVault(counter)">>
          /\ evalPc' = "returned"
          /\ verdict' = FinalVerdict(chain.forAssets, chain.againstAssets, threshold)
       \/ /\ evalReads' = evalReads \o <<"getVault(triple)">>
          /\ evalPc' = "rejected"
          /\ UNCHANGED verdict
    /\ UNCHANGED <<chain, threshold, verifyPc, verifyReads, verifyOut, verifyExit, hashVars, runVars>>

(***************************************************************************)
(* scripts/intuition-verify.mjs: main                                      *)
(***************************************************************************)
verifyFrame == <<chain, threshold, evalPc, evalReads, verdict, hashVars, runVars>>

\* lines 62-83: TARGET is an atom id, or a name whose atom id is calculated
VerifyResolve ==
    /\ verifyPc = "start"
    /\ \E byId \in BOOLEAN, ok \in BOOLEAN :
          IF byId
          THEN verifyPc' = "atom" /\ UNCHANGED <<verifyReads, verifyExit>>
          ELSE /\ verifyReads' = verifyReads \o <<"calculateAtomId">>
               /\ IF ok
                  THEN verifyPc' = "atom" /\ UNCHANGED verifyExit
                  ELSE \* main().catch: process.exit(1)
                       verifyPc' = "exited" /\ verifyExit' = 1
    /\ UNCHANGED <<verifyOut, verifyFrame>>

\* lines 85-128: the atom must exist
VerifyAtom ==
    /\ verifyPc = "atom"
    /\ \E ok \in BOOLEAN, atomOk \in BOOLEAN :
          IF ~ok
          THEN /\ verifyReads' = verifyReads \o <<"isTermCreated(atom)">>
               /\ verifyPc' = "exited" /\ verifyExit' = 1
               /\ UNCHANGED verifyOut
          ELSE IF chain.atomExists
          THEN /\ verifyReads' = verifyReads \o <<"isTermCreated(atom)", "atom">>
               /\ verifyOut' = [verifyOut EXCEPT !.atomExists = TRUE]
               /\ IF atomOk
                  THEN verifyPc' = "tripleId" /\ UNCHANGED verifyExit
                  ELSE verifyPc' = "exited" /\ verifyExit' = 1
          ELSE /\ verifyReads' = verifyReads \o <<"isTermCreated(atom)">>
               /\ verifyPc' = "exited" /\ verifyExit' = 1
               /\ UNCHANGED verifyOut
    /\ UNCHANGED verifyFrame

\* lines 130-144: the id of [Agent] [is] [AI Agent]
VerifyTripleId ==
    /\ verifyPc = "tripleId"
    /\ verifyReads' = verifyReads \o <<"calculateTripleId">>
    /\ \E ok \in BOOLEAN :
          verifyOut' = [verifyOut EXCEPT !.tripleId = IF ok THEN "id" ELSE "null"]
    /\ verifyPc' = "triple"
    /\ UNCHANGED <<verifyExit, verifyFrame>>

\* lines 146-176: the triple and the stake on it
VerifyTriple ==
    /\ verifyPc = "triple"
    /\ IF verifyOut.tripleId = "null"
       THEN UNCHANGED <<verifyReads, verifyOut>>
       ELSE \E ok \in BOOLEAN, vaultOk \in BOOLEAN :
              IF ~ok
              THEN /\ verifyReads' = verifyReads \o <<"isTermCreated(triple)">>
                   /\ UNCHANGED verifyOut
              ELSE IF chain.tripleExists
              THEN /\ verifyReads' = verifyReads \o <<"isTermCreated(triple)", "getVault(triple)">>
                   /\ verifyOut' = [verifyOut EXCEPT
                                      !.tripleExists = TRUE,
                                      !.stakedFor = IF vaultOk THEN chain.forAssets ELSE -1]
              ELSE /\ verifyReads' = verifyReads \o <<"isTermCreated(triple)">>
                   /\ UNCHANGED verifyOut
    /\ verifyPc' = "report"
    /\ UNCHANGED <<verifyExit, verifyFrame>>

\* lines 178-202: the report; main returns and the process ends with code 0
VerifyReport ==
    /\ verifyPc = "report"
    /\ verifyPc' = "exited"
    /\ verifyExit' = 0
    /\ UNCHANGED <<verifyReads, verifyOut, verifyFrame>>

(***************************************************************************)
(* scripts/attest-exchange.mjs and scripts/create-exchange-attestation.mjs *)
(* (the registry version, lines 1-239, and the resolving version, lines    *)
(* 409-675).  env holds the command line and what the run finds; runLog    *)
(* records its effects: "print:..", "read:..", "key" (privateKeyToAccount) *)
(* and "tx:.." (a transaction submitted to the MultiVault).                *)
(***************************************************************************)
\* the exchange hash each of the two agents computed ("none": not computed)
PartyHashes == {<<"0x1", "0x1">>, <<"0x1", "0x2">>, <<"0x1", "none">>, <<"none", "none">>}
\* the --hash argument of the run
HashArgs == {"none", "0x1"}

AttestEnvs ==
    [script : {"attest-exchange"}, partyHashes : PartyHashes, hashArg : HashArgs,
     named : BOOLEAN, known : BOOLEAN, compute : BOOLEAN, dryRun : BOOLEAN]

CreateRegistryEnvs ==
    [script : {"create-registry"}, partyHashes : PartyHashes, hashArg : HashArgs,
     named : BOOLEAN, registry : {"missing", "lacks", "ok"}, key : BOOLEAN,
     dryRun : BOOLEAN, funded : BOOLEAN, predicateExists : BOOLEAN]

CreateResolveEnvs ==
    [script : {"create-resolve"}, partyHashes : PartyHashes, hashArg : HashArgs,
     named : BOOLEAN, byId : BOOLEAN, atomsExist : BOOLEAN, key : BOOLEAN,
     dryRun : BOOLEAN, funded : BOOLEAN, predicateExists : BOOLEAN]

\* process.exit(code), or the end of main
Exit(code, log) ==
    /\ runPc' = "exited"
    /\ runExit' = code
    /\ runLog' = runLog \o log

Goto(next, log) ==
    /\ runPc' = next
    /\ runLog' = runLog \o log
    /\ UNCHANGED runExit

runFrame == <<env, hashVars, trustVars>>

\* attest-exchange.mjs, lines 21-40: the arguments
AttestStartup ==
    /\ env.script = "attest-exchange"
    /\ runPc = "start"
    /\ IF ~env.named THEN Exit(1, <<"error:need --from and --to">>)
       ELSE Goto("main", <<>>)
    /\ UNCHANGED runFrame

\* attest-exchange.mjs, main (lines 89-120); an error of computeExchangeHash
\* or of the use of its result goes to main().catch(console.error)
AttestMain ==
    /\ env.script = "attest-exchange"
    /\ runPc = "main"
    /\ IF ~env.known THEN Exit(1, <<"error:unknown agent">>)
       ELSE IF env.compute
       THEN LET res == computeExchangeHash(messages)
            IN  IF res.threw # "" THEN Exit(0, <<"error:" \o res.threw>>)
                ELSE IF res.returned = "undefined" THEN Exit(0, <<"error:TypeError">>)
                ELSE Exit(0, <<"print:triple",
                               IF env.dryRun THEN "print:dry run" ELSE "print:use create">>)
       ELSE Exit(0, <<"print:triple",
                      IF env.dryRun THEN "print:dry run" ELSE "print:use create">>)
    /\ UNCHANGED runFrame

IsCreate == env.script \in {"create-registry", "create-resolve"}

\* faulty variant: the key is demanded of a dry run too
KeyRequiredAlways(key, dryRun) == ~key

\* if (!privateKey && !dryRun): the run stops for lack of a key
KeyRequired(key, dryRun) == ~key /\ ~dryRun

\* create-exchange-attestation.mjs, module level: the arguments, the
\* registry (lines 88-108) and the private key (lines 110-114, 486-490)
CreateStartup ==
    /\ IsCreate
    /\ runPc = "start"
    /\ IF ~env.named THEN Exit(1, <<"error:need agents">>)
       ELSE IF env.script = "create-registry" /\ env.registry # "ok"
       THEN Exit(1, <<"error:registry">>)
       ELSE IF KeyRequired(env.key, env.dryRun)
       THEN Exit(1, <<"error:private key required">>)
       ELSE Goto("main", <<>>)
    /\ UNCHANGED runFrame

\* the resolving version looks the agents' atoms up first (resolveAtomId,
\* lines 492-516, called at 534-535)
ResolveAtoms ==
    IF env.script = "create-registry" \/ env.byId THEN <<>>
    ELSE <<"read:calculateAtomId", "read:isTermCreated">>

\* main up to the dry-run return (lines 115-128, 518-548), then the account
CreateMain ==
    /\ IsCreate
    /\ runPc = "main"
    /\ \E ok \in BOOLEAN :
          IF ResolveAtoms # <<>> /\ ~ok
          THEN Exit(1, <<"read:calculateAtomId", "error:read failed">>)
          ELSE IF ResolveAtoms # <<>> /\ ~env.atomsExist
          THEN Exit(1, ResolveAtoms \o <<"error:atom not found">>)
          ELSE IF env.dryRun THEN Exit(0, ResolveAtoms \o <<"print:dry run">>)
          ELSE Goto("funds", ResolveAtoms \o <<"key">>)
    /\ UNCHANGED runFrame

\* balance and costs (lines 143-153, 559-572)
CreateFunds ==
    /\ IsCreate
    /\ runPc = "funds"
    /\ \E ok \in BOOLEAN :
          IF ~ok THEN Exit(1, <<"read:getBalance", "error:read failed">>)
          ELSE IF ~env.funded
          THEN Exit(1, <<"read:getBalance", "read:getAtomCost", "read:getTripleCost",
                         "print:insufficient balance">>)
          ELSE Goto("atom", <<"read:getBalance", "read:getAtomCost", "read:getTripleCost">>)
    /\ UNCHANGED runFrame

\* step 1: the exchange atom (lines 155-170, 574-591)
CreateExchangeAtom ==
    /\ IsCreate
    /\ runPc = "atom"
    /\ \E ok \in BOOLEAN :
          IF ok THEN Goto("predicate", <<"tx:createAtoms(exchange)">>)
          ELSE Exit(1, <<"tx:createAtoms(exchange)", "error:transaction failed">>)
    /\ UNCHANGED runFrame

\* step 2: the participatesIn atom, created always (lines 172-186) or when
\* it does not exist yet (lines 593-626)
CreatePredicate ==
    /\ IsCreate
    /\ runPc = "predicate"
    /\ \E ok \in BOOLEAN :
          IF env.script = "create-registry"
          THEN IF ok THEN Goto("triples", <<"tx:createAtoms(participatesIn)">>)
               ELSE Exit(1, <<"tx:createAtoms(participatesIn)", "error:transaction failed">>)
          ELSE IF env.predicateExists
          THEN Goto("triples", <<"read:calculateAtomId", "read:isTermCreated">>)
          ELSE IF ok
          THEN Goto("triples", <<"read:calculateAtomId", "read:isTermCreated",
                                 "tx:createAtoms(participatesIn)">>)
          ELSE Exit(1, <<"read:calculateAtomId", "read:isTermCreated",
                         "tx:createAtoms(participatesIn)", "error:transaction failed">>)
    /\ UNCHANGED runFrame

\* step 3: the two triples and the report (lines 188-232, 628-669)
CreateTriples ==
    /\ IsCreate
    /\ runPc = "triples"
    /\ \E ok \in BOOLEAN :
          IF ok THEN Exit(0, <<"tx:createTriples", "print:complete">>)
          ELSE Exit(1, <<"tx:createTriples", "error:transaction failed">>)
    /\ UNCHANGED runFrame

(***************************************************************************)
(* The argument checks of the scripts the test suite runs with --help      *)
(* (test-skill.mjs, TESTS).  One operator per script: what the script does *)
(* with its arguments before any other work.                               *)
(***************************************************************************)
MaxArgs == 2
ArgTokens == {"--help", "-h", "--json", "name"}
ArgLists == UNION {[1..n -> ArgTokens] : n \in 0..MaxArgs}

Includes(args, t) == \E i \in 1..Len(args) : args[i] = t

\* args.includes('--help') || args.includes('-h')
HelpAsked(args) == Includes(args, "--help") \/ Includes(args, "-h")

\* a.startsWith('--')
StartsWithDashes(t) == t \in {"--help", "--json"}

\* args.find(a => !a.startsWith('--')) finds something
HasPositional(args) == \E i \in 1..Len(args) : ~StartsWithDashes(args[i])

\* the banner goes to stdout (console.log) and the process exits with `code`
Usage(code) == [stop |-> TRUE, code |-> code]
Proceed == [stop |-> FALSE, code |-> -1]

\* intuition-tools.mjs, main, lines 67-71
ToolsArgs(args) == IF Len(args) = 0 \/ HelpAsked(args) THEN Usage(0) ELSE Proceed

\* intuition-agents.mjs, line 21; intuition-positions.mjs and
\* intuition-health.mjs have the same test
AgentsArgs(args) == IF HelpAsked(args) THEN Usage(0) ELSE Proceed

\* intuition-triples.mjs, main, lines 99-119
TriplesArgs(args) == IF Len(args) = 0 \/ HelpAsked(args) THEN Usage(0) ELSE Proceed

\* intuition-verify.mjs, lines 25-46
VerifyArgs(args) == IF ~HasPositional(args) \/ HelpAsked(args) THEN Usage(0) ELSE Proceed

\* intuition-query.mjs, second version: usage(0), usage(1), usage()
QueryArgs(args) ==
    IF HelpAsked(args) THEN Usage(0)
    ELSE IF Len(args) < 1 THEN Usage(1)
    ELSE IF ~HasPositional(args) THEN Usage(1)
    ELSE Proceed

\* intuition-query.mjs, registry version: usage() exits with 1
QueryRegistryArgs(args) ==
    IF Len(args) < 1 \/ HelpAsked(args) THEN Usage(1)
    ELSE IF ~HasPositional(args) THEN Usage(1)
    ELSE Proceed

\* intuition-stake.mjs, both versions: usage() exits with 1
StakeArgs(args) == IF Len(args) < 2 \/ HelpAsked(args) THEN Usage(1) ELSE Proceed

\* intuition-redeem.mjs, main: usage(0), usage(1)
RedeemArgs(args) ==
    IF HelpAsked(args) THEN Usage(0)
    ELSE IF Len(args) < 2 THEN Usage(1)
    ELSE Proceed

HelpScripts ==
    {"tools", "agents", "query", "query-registry", "triples", "verify",
     "stake", "stake-triple", "redeem", "positions", "health"}

ArgCheck(script, args) ==
    CASE script = "tools" -> ToolsArgs(args)
      [] script \in {"agents", "positions", "health"} -> AgentsArgs(args)
      [] script = "triples" -> TriplesArgs(args)
      [] script = "verify" -> VerifyArgs(args)
      [] script = "query" -> QueryArgs(args)
      [] script = "query-registry" -> QueryRegistryArgs(args)
      [] script \in {"stake", "stake-triple"} -> StakeArgs(args)
      [] script = "redeem" -> RedeemArgs(args)

ScriptEnvs == [script : HelpScripts, args : ArgLists]

\* the script starts: it prints its banner and exits, or goes on
ScriptStartup ==
    /\ env.script \in HelpScripts
    /\ runPc = "start"
    /\ LET res == ArgCheck(env.script, env.args)
       IN  IF res.stop THEN Exit(res.code, <<"stdout:banner">>)
           ELSE Goto("main", <<>>)
    /\ UNCHANGED runFrame

\* the rest of the script: its registry, wallet, network and contract work,
\* ending with code 0 or 1
ScriptWork ==
    /\ env.script \in HelpScripts
    /\ runPc = "main"
    /\ \E code \in {0, 1} : Exit(code, <<"work">>)
    /\ UNCHANGED runFrame

(***************************************************************************)
(* The scripts that spend from or pay into the wallet:                     *)
(* intuition-quickstart-v3.mjs, intuition-stake.mjs (the version for       *)
(* triples, lines 1-145, and the version for any term, lines 147-327) and  *)
(* intuition-redeem.mjs.  env holds the arguments and what the chain       *)
(* answers; amounts are whole units of $TRUST or of shares.                *)
(***************************************************************************)
MaxShares == 2

\* multiVaultGetAtomCost, multiVaultGetTripleCost
AtomCost == 1
TripleCost == 1

Balances == 0..4
\* the stake: '0' passes the argument pattern and fails `<= 0n`
Amounts == 0..2

\* the second argument of intuition-redeem: 'all', something BigInt() throws
\* on, or a number
ShareArgs ==
    {[kind |-> "all", n |-> 0], [kind |-> "text", n |-> 0]}
        \cup {[kind |-> "number", n |-> k] : k \in -1..(MaxShares + 1)}

QuickEnvs ==
    [script : {"quickstart"}, walletExists : BOOLEAN, balance : Balances,
     amount : Amounts]

StakeTripleEnvs ==
    [script : {"stake-triple"}, idOk : BOOLEAN, wallet : BOOLEAN, balance : Balances,
     amount : Amounts, isTriple : BOOLEAN, against : BOOLEAN]

StakeEnvs ==
    [script : {"stake"}, idOk : BOOLEAN, wallet : BOOLEAN, balance : Balances,
     amount : Amounts, exists : BOOLEAN, isTriple : BOOLEAN, against : BOOLEAN]

RedeemEnvs ==
    [script : {"redeem"}, idOk : BOOLEAN, wallet : BOOLEAN, exists : BOOLEAN,
     isTriple : BOOLEAN, maxShares : 0..MaxShares, shareArg : ShareArgs]

\* intuition-quickstart-v3.mjs, lines 69-115: the stake amount is checked,
\* the wallet is loaded or created
QuickStartup ==
    /\ env.script = "quickstart"
    /\ runPc = "start"
    /\ IF env.amount <= 0 THEN Exit(1, <<"error:stake amount must be positive">>)
       ELSE IF env.walletExists THEN Goto("funds", <<"key">>)
       ELSE Goto("funds", <<"file:wallet", "key">>)
    /\ UNCHANGED runFrame

\* totalNeeded, line 140
QuickTotalNeeded(amount) == AtomCost + TripleCost + amount

\* lines 132-163: the balance against what the three writes need
QuickFunds ==
    /\ env.script = "quickstart"
    /\ runPc = "funds"
    /\ LET reads == <<"read:getBalance", "read:getAtomCost", "read:getTripleCost">>
       IN  IF env.balance < QuickTotalNeeded(env.amount)
           THEN Exit(0, reads \o <<"print:insufficient balance", "file:needs_funding">>)
           ELSE Goto("atom", reads)
    /\ UNCHANGED runFrame

\* what a write brings back: the call rejects, the receipt holds no event
\* with an id, or the id is read from the receipt
Outcomes == {"throws", "noId", "id"}

\* the loop over the receipt's logs prints the id it finds (lines 181-194,
\* 219-232)
IdPrinted(outcome, line) == IF outcome = "id" THEN <<line>> ELSE <<>>

\* faulty variant: the script goes on without an id
IdMissingIgnored(outcome) == FALSE

\* !agentAtomId, !tripleId (lines 196, 234)
IdMissing(outcome) == outcome # "id"

\* lines 165-197: the identity atom
QuickAtom ==
    /\ env.script = "quickstart"
    /\ runPc = "atom"
    /\ \E outcome \in Outcomes :
          IF outcome = "throws"
          THEN Exit(1, <<"tx:createAtoms", "error:transaction failed">>)
          ELSE IF IdMissing(outcome)
          THEN Exit(1, <<"tx:createAtoms">> \o IdPrinted(outcome, "print:Atom ID")
                           \o <<"print:Failed to extract atom ID">>)
          ELSE Goto("triple", <<"tx:createAtoms">> \o IdPrinted(outcome, "print:Atom ID"))
    /\ UNCHANGED runFrame

\* lines 199-234: the triple [agent] [is] [AI Agent]
QuickTriple ==
    /\ env.script = "quickstart"
    /\ runPc = "triple"
    /\ \E outcome \in Outcomes :
          IF outcome = "throws"
          THEN Exit(1, <<"tx:createTriples", "error:transaction failed">>)
          ELSE IF IdMissing(outcome)
          THEN Exit(1, <<"tx:createTriples">> \o IdPrinted(outcome, "print:Triple ID")
                           \o <<"print:Failed to extract triple ID">>)
          ELSE Goto("deposit", <<"tx:createTriples">>
                                   \o IdPrinted(outcome, "print:Triple ID"))
    /\ UNCHANGED runFrame

\* lines 236-288: the stake, the identity file and the report
QuickStake ==
    /\ env.script = "quickstart"
    /\ runPc = "deposit"
    /\ \E ok \in BOOLEAN :
          IF ok THEN Exit(0, <<"tx:deposit", "read:getBalance", "file:complete",
                               "print:complete">>)
          ELSE Exit(1, <<"tx:deposit", "error:transaction failed">>)
    /\ UNCHANGED runFrame

IsStake == env.script \in {"stake-triple", "stake"}

\* intuition-stake.mjs, lines 60-80 and 206-231: the id, the amount, the key
StakeStartup ==
    /\ IsStake
    /\ runPc = "start"
    /\ IF ~env.idOk THEN Exit(1, <<"error:invalid id">>)
       ELSE IF env.amount <= 0 THEN Exit(1, <<"error:amount must be positive">>)
       ELSE IF ~env.wallet THEN Exit(1, <<"error:no wallet found">>)
       ELSE Goto("chain", <<"key">>)
    /\ UNCHANGED runFrame

\* the reads between the key and the deposit: lines 99-123 of the version
\* for triples, lines 246-304 of the version for any term
StakeChecks ==
    /\ IsStake
    /\ runPc = "chain"
    /\ LET counter == IF env.against THEN <<"read:getCounterIdFromTripleId">> ELSE <<>>
       IN  IF env.script = "stake-triple"
           THEN IF ~env.isTriple
                THEN Exit(1, <<"read:getBalance", "read:isTriple",
                               "error:not a valid triple id">>)
                ELSE Goto("deposit", <<"read:getBalance", "read:isTriple">> \o counter)
           ELSE IF ~env.exists
                THEN Exit(1, <<"read:isTermCreated", "error:term not found">>)
           ELSE IF env.against /\ ~env.isTriple
                THEN Exit(1, <<"read:isTermCreated", "read:isTriple", "read:getBalance",
                               "error:--against only works for triples">>)
           ELSE IF env.balance < env.amount
                THEN Exit(1, <<"read:isTermCreated", "read:isTriple", "read:getBalance">>
                               \o counter \o <<"error:insufficient balance">>)
           ELSE Goto("deposit", <<"read:isTermCreated", "read:isTriple",
                                  "read:getBalance">> \o counter)
    /\ UNCHANGED runFrame

\* lines 125-138 and 308-321: the deposit; a value above the balance cannot
\* be paid, so that deposit is rejected.  A failed receipt is only printed.
StakeDeposit ==
    /\ IsStake
    /\ runPc = "deposit"
    /\ \E ok \in {b \in BOOLEAN : b => env.balance >= env.amount} :
          IF ok THEN Exit(0, <<"tx:deposit", "read:getBalance">>)
          ELSE Exit(1, <<"tx:deposit", "error:transaction failed">>)
    /\ UNCHANGED runFrame

\* intuition-redeem.mjs, lines 69-90: the id and the key
RedeemStartup ==
    /\ env.script = "redeem"
    /\ runPc = "start"
    /\ IF ~env.idOk THEN Exit(1, <<"error:invalid term id">>)
       ELSE IF ~env.wallet THEN Exit(1, <<"error:no wallet found">>)
       ELSE Goto("chain", <<"key">>)
    /\ UNCHANGED runFrame

\* the result of lines 136-150: the shares to redeem, or the error
Shares(n) == [error |-> "", shares |-> n]
Refused(error) == [error |-> error, shares |-> 0]

\* faulty variant: the upper limit is not checked
SharesToRedeemUnlimited(shareArg, maxShares) ==
    IF shareArg.kind = "all" THEN Shares(maxShares)
    ELSE IF shareArg.kind = "text" THEN Refused("error:SyntaxError")
    ELSE IF shareArg.n <= 0 THEN Refused("error:share amount must be positive")
    ELSE Shares(shareArg.n)

SharesToRedeem(shareArg, maxShares) ==
    IF shareArg.kind = "all" THEN Shares(maxShares)
    ELSE IF shareArg.kind = "text" THEN Refused("error:SyntaxError")
    ELSE IF shareArg.n <= 0 THEN Refused("error:share amount must be positive")
    ELSE IF shareArg.n > maxShares THEN Refused("error:cannot redeem that many shares")
    ELSE Shares(shareArg.n)

\* the redeem transaction of n shares
RedeemTx(n) == "tx:redeem(" \o ToString(n) \o ")"

\* lines 105-153: the term, the position and the amount
RedeemChecks ==
    /\ env.script = "redeem"
    /\ runPc = "chain"
    /\ IF ~env.exists THEN Exit(1, <<"read:isTermCreated", "error:term not found">>)
       ELSE LET reads == <<"read:isTermCreated", "read:isTriple", "read:maxRedeem">>
                res == SharesToRedeem(env.shareArg, env.maxShares)
            IN  IF env.maxShares = 0 THEN Exit(1, reads \o <<"error:no shares">>)
                ELSE IF res.error # "" THEN Exit(1, reads \o <<res.error>>)
                ELSE Goto("redeem", reads)
    /\ UNCHANGED runFrame

\* lines 155-206: the reads for the report, the redeem and its receipt
RedeemSubmit ==
    /\ env.script = "redeem"
    /\ runPc = "redeem"
    /\ LET reads == <<"read:convertToAssets", "read:currentSharePrice",
                      "read:convertToAssets">>
           tx == RedeemTx(SharesToRedeem(env.shareArg, env.maxShares).shares)
       IN  \E outcome \in {"throws", "failed", "success"} :
              IF outcome = "throws" THEN Exit(1, reads \o <<tx, "error:transaction failed">>)
              ELSE IF outcome = "failed" THEN Exit(1, reads \o <<tx, "print:Failed">>)
              ELSE Exit(0, reads \o <<tx, "print:Done">>)
    /\ UNCHANGED runFrame

(***************************************************************************)
(* Specifications                                                          *)
(***************************************************************************)
HashIdle ==
    /\ agents = <<NameA, NameAB>>
    /\ tz = 0
    /\ transcript = <<>>
    /\ messages = <<>>
    /\ pc = "off"
    /\ rhythm = None
    /\ hash = None
    /\ exitCode = -1
    /\ peer = None
    /\ attest = None

TrustIdle ==
    /\ chain = [atomExists |-> FALSE, tripleExists |-> FALSE, forAssets |-> 0, againstAssets |-> 0]
    /\ threshold = [stake |-> 100, sentiment |-> 80]
    /\ evalPc = "off"
    /\ evalReads = <<>>
    /\ verdict = None
    /\ verifyPc = "off"
    /\ verifyReads = <<>>
    /\ verifyOut = [atomExists |-> FALSE, tripleId |-> "null", tripleExists |-> FALSE, stakedFor |-> -1]
    /\ verifyExit = -1

RunIdle ==
    /\ env = None
    /\ runPc = "off"
    /\ runLog = <<>>
    /\ runExit = -1

\* the fingerprint pipeline: a transcript has been read on some host
InitHash ==
    /\ agents \in AgentPairs
    /\ tz \in TimeZones
    /\ transcript \in TranscriptsOf(agents)
    /\ messages = transcript
    /\ pc = "start"
    /\ rhythm = None
    /\ hash = None
    /\ exitCode = -1
    /\ peer = None
    /\ attest = None
    /\ TrustIdle
    /\ RunIdle

NextHash ==
    \/ MainExchangeHash
    \/ AttestCompute
    \/ PeerSwapped
    \/ PeerOtherZone

SpecHash == InitHash /\ [][NextHash]_vars

\* computeRhythm called on the array as read, and on the peer's reading
NextRhythm ==
    \/ CallComputeRhythm
    \/ PeerReordered

SpecRhythm == InitHash /\ [][NextRhythm]_vars

\* trust evaluation of an entity against some state of the contract
InitTrust ==
    /\ chain \in ChainStates
    /\ threshold \in Thresholds
    /\ evalPc = "start"
    /\ evalReads = <<>>
    /\ verdict = None
    /\ verifyPc = "start"
    /\ verifyReads = <<>>
    /\ verifyOut = [atomExists |-> FALSE, tripleId |-> "null", tripleExists |-> FALSE, stakedFor |-> -1]
    /\ verifyExit = -1
    /\ HashIdle
    /\ RunIdle

NextTrust ==
    \/ EvalCheckIdentity
    \/ EvalCheckClaim
    \/ EvalStakeAndSentiment
    \/ VerifyResolve
    \/ VerifyAtom
    \/ VerifyTripleId
    \/ VerifyTriple
    \/ VerifyReport

SpecTrust == InitTrust /\ [][NextTrust]_vars

\* evaluateTrust alone, over every signal its reads can resolve to
InitSignal ==
    /\ chain \in SignalStates
    /\ threshold \in Thresholds
    /\ evalPc = "start"
    /\ evalReads = <<>>
    /\ verdict = None
    /\ verifyPc = "off"
    /\ verifyReads = <<>>
    /\ verifyOut = [atomExists |-> FALSE, tripleId |-> "null", tripleExists |-> FALSE, stakedFor |-> -1]
    /\ verifyExit = -1
    /\ HashIdle
    /\ RunIdle

NextSignal ==
    \/ EvalCheckIdentity
    \/ EvalCheckClaim
    \/ EvalStakeAndSentiment

SpecSignal == InitSignal /\ [][NextSignal]_vars

\* exchange-hash.mjs from the listing of the message store on
InitStore ==
    /\ agents \in AgentPairs
    /\ tz = 0
    /\ env \in [script : {"exchange-hash"}, files : Stores]
    /\ transcript = <<>>
    /\ messages = <<>>
    /\ pc = "reading"
    /\ rhythm = None
    /\ hash = None
    /\ exitCode = -1
    /\ peer = None
    /\ attest = None
    /\ runPc = "off"
    /\ runLog = <<>>
    /\ runExit = -1
    /\ TrustIdle

NextStore ==
    \/ ReadStore
    \/ MainExchangeHash
    \/ PeerRebodied
    \/ PeerAppended

SpecStore == InitStore /\ [][NextStore]_vars

\* a run of attest-exchange.mjs or of create-exchange-attestation.mjs
InitAttest ==
    /\ env \in AttestEnvs \cup CreateRegistryEnvs \cup CreateResolveEnvs
    /\ runPc = "start"
    /\ runLog = <<>>
    /\ runExit = -1
    /\ agents = <<NameA, NameAB>>
    /\ tz = 0
    /\ transcript \in {<<>>,
                       <<[from |-> NameA, time |-> 1320, length |-> 3],
                         [from |-> NameAB, time |-> 1440, length |-> 3]>>}
    /\ messages = transcript
    /\ pc = "off"
    /\ rhythm = None
    /\ hash = None
    /\ exitCode = -1
    /\ peer = None
    /\ attest = None
    /\ TrustIdle

NextAttest ==
    \/ AttestStartup
    \/ AttestMain
    \/ CreateStartup
    \/ CreateMain
    \/ CreateFunds
    \/ CreateExchangeAtom
    \/ CreatePredicate
    \/ CreateTriples

SpecAttest == InitAttest /\ [][NextAttest]_vars

\* one of the scripts of the test suite, started with some arguments
InitHelp ==
    /\ env \in ScriptEnvs
    /\ runPc = "start"
    /\ runLog = <<>>
    /\ runExit = -1
    /\ HashIdle
    /\ TrustIdle

NextHelp ==
    \/ ScriptStartup
    \/ ScriptWork

SpecHelp == InitHelp /\ [][NextHelp]_vars

\* one of the scripts that spend from or pay into the wallet
InitWallet ==
    /\ env \in QuickEnvs \cup StakeTripleEnvs \cup StakeEnvs \cup RedeemEnvs
    /\ runPc = "start"
    /\ runLog = <<>>
    /\ runExit = -1
    /\ HashIdle
    /\ TrustIdle

NextWallet ==
    \/ QuickStartup
    \/ QuickFunds
    \/ QuickAtom
    \/ QuickTriple
    \/ QuickStake
    \/ StakeStartup
    \/ StakeChecks
    \/ StakeDeposit
    \/ RedeemStartup
    \/ RedeemChecks
    \/ RedeemSubmit

SpecWallet == InitWallet /\ [][NextWallet]_vars

(***************************************************************************)
(* Properties                                                              *)
(***************************************************************************)
DistinctTimes(msgs) ==
    \A i, j \in 1..Len(msgs) : i # j => msgs[i].time # msgs[j].time

\* the metrics computed from the count and the timestamps alone
TimeOnly(r) ==
    [f \in DOMAIN r \cap {"messageCount", "gapsCount", "gapSurvival", "temporalConsistency"}
       |-> r[f]]

SameHashes(h1, h2) ==
    /\ h1.commitment = h2.commitment
    /\ h1.rhythmSignature = h2.rhythmSignature
    /\ h1.exchangeHash = h2.exchangeHash

IsHex0x(h, n) == h.prefix = "0x" /\ h.hexLen = n /\ n > 0

\* C1: computeRhythm on an empty or one-message array returns messageCount
\* equal to the array's length, avgLatency 0 and gapSurvival 1.0.
C1_EmptyOrSingleDefaults ==
    (pc = "called" /\ Len(transcript) < 2) =>
        /\ rhythm.messageCount = Len(transcript)
        /\ rhythm.avgLatency = 0
        /\ rhythm.gapSurvival = 100

\* C2 as stated: computeRhythm returns the same metrics for a message
\* sequence and for every reordering of it, equal timestamps included.
C2_ReorderingSameMetrics ==
    (pc = "called" /\ peer # None /\ peer.kind = "reordered") => peer.rhythm = rhythm

\* C2 as amended: when the timestamps are pairwise distinct every reordering
\* gives the same metrics; when timestamps repeat, messageCount, gapsCount,
\* gapSurvival and temporalConsistency are still the same for every reordering.
C2_ReorderingSameMetricsAmended ==
    (pc = "called" /\ peer # None /\ peer.kind = "reordered") =>
        /\ TimeOnly(peer.rhythm) = TimeOnly(rhythm)
        /\ DistinctTimes(transcript) => peer.rhythm = rhythm

C2_Witness ==
    /\ pc = "called" /\ peer # None /\ peer.kind = "reordered"
    /\ ~peer.sameOrder
    /\ Len(transcript) = 3 /\ DistinctTimes(transcript)
    /\ messages # transcript
    /\ Len(rhythm.responseLatencies) = 2

\* C3: with the transcript and rhythm fixed, createExchangeHash(a, b, ...)
\* and createExchangeHash(b, a, ...) return the same commitment,
\* rhythmSignature and exchangeHash, and both return the agents sorted.
C3_AgentOrderIrrelevant ==
    (pc = "reported" /\ peer # None /\ peer.kind = "swapped") =>
        /\ SameHashes(peer.hash, hash)
        /\ peer.hash.agents = hash.agents
        /\ ~StrLess(hash.agents[2], hash.agents[1])
        /\ {hash.agents[1], hash.agents[2]} = {agents[1], agents[2]}

C3_Witness ==
    /\ pc = "reported" /\ peer # None /\ peer.kind = "swapped"
    /\ Len(transcript) >= 2
    /\ hash.agents # agents

\* C4: two computations on the same transcript and agent pair, on hosts in
\* different time zones, give the same rhythm metrics, commitment,
\* rhythmSignature and exchangeHash.
C4_HostIndependent ==
    (pc = "reported" /\ peer # None /\ peer.kind = "otherzone") =>
        /\ peer.rhythm = rhythm
        /\ SameHashes(peer.hash, hash)

\* C5: for a transcript of fewer than 2 messages no exchange hash is
\* produced: exchange-hash.mjs does not reach its report (its exit on an
\* empty transcript is taken as reporting the lack of data), and
\* computeExchangeHash of attest-exchange.mjs throws.
C5_TooFewMessagesNoHash ==
    Len(transcript) < 2 =>
        /\ hash = None
        /\ pc # "reported"
        /\ pc = "attested" =>
              attest.threw = "Not enough messages" /\ attest.exchangeHash = None

\* C6: for a transcript of at least 2 messages exchange-hash.mjs reports a
\* commitment, a rhythmSignature and an exchangeHash, each "0x" followed by
\* 16, 16 and 64 hex digits.
C6_HashShape ==
    (pc \in {"exit", "reported"} /\ Len(transcript) >= 2) =>
        /\ pc = "reported"
        /\ hash # None
        /\ IsHex0x(hash.commitment, 16)
        /\ IsHex0x(hash.rhythmSignature, 16)
        /\ IsHex0x(hash.exchangeHash, 64)

C6_Witness ==
    /\ pc = "reported"
    /\ Len(transcript) = 2
    /\ hash.exchangeHash.hexLen = 64

\* C7: with the identity and the claim existing and nothing staked for or
\* against, evaluateTrust returns sentiment 1.0.
C7_ZeroStakeSentimentOne ==
    (evalPc = "returned" /\ chain.tripleExists
       /\ chain.forAssets = 0 /\ chain.againstAssets = 0) =>
        /\ "sentiment" \in DOMAIN verdict
        /\ verdict.sentiment.den # 0
        /\ verdict.sentiment.num = verdict.sentiment.den

\* C8: when identity and claim exist, trusted is (forStake >= threshold
\* stake) and (sentiment >= threshold sentiment), and the verdict carries
\* the stake, the sentiment forStake / (forStake + againstStake) and
\* contested; 5 for and 0 against under (1, 0.8) is trusted, 0.05 is not.
C8_ThresholdGating ==
    (evalPc = "returned" /\ chain.atomExists /\ chain.tripleExists) =>
        LET for == chain.forAssets
            against == chain.againstAssets
        IN  /\ {"trusted", "stake", "sentiment", "contested"} \subseteq DOMAIN verdict
            /\ verdict.stake = for
            /\ verdict.contested = (against > 0)
            /\ verdict.sentiment.den > 0
            /\ for + against > 0 =>
                  verdict.sentiment.num * (for + against) = for * verdict.sentiment.den
            /\ verdict.trusted =
                  (/\ for >= threshold.stake
                   /\ verdict.sentiment.num * 100 >= threshold.sentiment * verdict.sentiment.den)
            /\ (threshold = [stake |-> 100, sentiment |-> 80] /\ against = 0) =>
                  /\ for = 500 => verdict.trusted
                  /\ for = 5 => ~verdict.trusted

C8_Witness ==
    /\ evalPc = "returned"
    /\ chain.tripleExists /\ chain.forAssets = 500 /\ chain.againstAssets = 0
    /\ threshold = [stake |-> 100, sentiment |-> 80]
    /\ verdict.trusted

\* C9: every verdict with trusted = false carries a reason, and when the
\* identity and the claim exist that reason is neither the no-identity nor
\* the no-claim reason.
C9_UntrustedHasReason ==
    (evalPc = "returned" /\ ~verdict.trusted) =>
        /\ "reason" \in DOMAIN verdict
        /\ (chain.atomExists /\ chain.tripleExists) =>
              verdict.reason \notin {"no on-chain identity", "no identity claim"}

\* C10: when the identity atom does not exist, evaluateTrust returns
\* trusted = false with the no-identity reason having read nothing but the
\* atom's existence, and never goes on to the claim, the stakes or the
\* sentiment; intuition-verify exits with code 1 before it looks up the triple.
C10_NoIdentityStops ==
    ~chain.atomExists =>
        /\ evalPc \in {"off", "start", "returned", "rejected"}
        /\ evalPc = "returned" =>
              /\ verdict = [trusted |-> FALSE, reason |-> "no on-chain identity"]
              /\ evalReads = <<"calculateAtomId", "isTermCreated(atom)">>
        /\ \A i \in 1..Len(evalReads) :
              evalReads[i] \in {"calculateAtomId", "isTermCreated(atom)"}
        /\ verifyPc \in {"off", "start", "atom", "exited"}
        /\ verifyPc = "exited" => verifyExit = 1
        /\ \A i \in 1..Len(verifyReads) :
              verifyReads[i] \in {"calculateAtomId", "isTermCreated(atom)"}

C10_Witness ==
    /\ ~chain.atomExists
    /\ evalPc = "returned" /\ ~verdict.trusted
    /\ verifyPc = "exited" /\ verifyExit = 1
    /\ verifyReads = <<"calculateAtomId", "isTermCreated(atom)">>

VaultReads == {"getVault(triple)", "getCounterIdFromTripleId", "getVault(counter)"}

\* C11: when the identity exists and the claim triple does not, evaluateTrust
\* returns exactly trusted = false with the no-claim reason, whatever the
\* vaults would answer and whatever the threshold, and reads no vault;
\* intuition-verify reports the triple as missing without reading its vault.
C11_NoClaimStops ==
    (chain.atomExists /\ ~chain.tripleExists) =>
        /\ evalPc # "stake"
        /\ evalPc = "returned" =>
              verdict = [trusted |-> FALSE, reason |-> "no identity claim"]
        /\ \A i \in 1..Len(evalReads) : evalReads[i] \notin VaultReads
        /\ \A i \in 1..Len(verifyReads) : verifyReads[i] \notin VaultReads
        /\ ~verifyOut.tripleExists
        /\ verifyOut.stakedFor = -1

C11_Witness ==
    /\ chain.atomExists /\ ~chain.tripleExists
    /\ chain.forAssets = 500 /\ chain.againstAssets = 300
    /\ evalPc = "returned" /\ verdict.reason = "no identity claim"
    /\ evalReads[Len(evalReads)] = "isTermCreated(triple)"
    /\ verifyPc = "exited" /\ verifyExit = 0
    /\ verifyReads[Len(verifyReads)] = "isTermCreated(triple)"

\* C12: in every verdict computed from the stakes, contested is true exactly
\* when the stake against is greater than 0; 2 for and 3 against gives
\* sentiment 0.4 and contested = true, and trusted = false under the default
\* sentiment threshold 0.8.
C12_ContestedIffAgainst ==
    (evalPc = "returned" /\ chain.atomExists /\ chain.tripleExists) =>
        /\ verdict.contested <=> chain.againstAssets > 0
        /\ (chain.forAssets = 200 /\ chain.againstAssets = 300) =>
              /\ verdict.sentiment.num * 10 = 4 * verdict.sentiment.den
              /\ verdict.contested
              /\ threshold.sentiment = 80 => ~verdict.trusted

C12_Witness ==
    /\ evalPc = "returned"
    /\ chain.forAssets = 200 /\ chain.againstAssets = 300
    /\ threshold = [stake |-> 100, sentiment |-> 80]
    /\ verdict.contested /\ ~verdict.trusted
    /\ verdict.stake >= threshold.stake

\* C13: a signal with a negative stake for or against never gets a verdict
\* from evaluateTrust (stated for the signals whose stakes the function
\* reads: identity and claim exist).
C13_NegativeStakeNoVerdict ==
    (chain.atomExists /\ chain.tripleExists
       /\ (chain.forAssets < 0 \/ chain.againstAssets < 0)) =>
        /\ evalPc # "returned"
        /\ verdict = None

Logged(e) == \E i \in 1..Len(runLog) : runLog[i] = e

Transactions ==
    {"tx:createAtoms(exchange)", "tx:createAtoms(participatesIn)", "tx:createTriples"}

Submitted == \E i \in 1..Len(runLog) : runLog[i] \in Transactions

BothComputedSame ==
    env.partyHashes[1] = env.partyHashes[2] /\ env.partyHashes[1] # "none"

\* C14: attest-exchange gets to name the triple to create, and
\* create-exchange-attestation submits a transaction, only when both agents
\* have computed the same exchange hash; when the hashes differ or one is
\* missing neither happens.
C14_AttestationNeedsMatchingHashes ==
    (env # None /\ ~BothComputedSame) =>
        /\ ~Logged("print:triple")
        /\ ~Submitted

C16_HelpExitsZero ==
    (env # None /\ Includes(env.args, "--help")) =>
        /\ runPc \in {"start", "exited"}
        /\ runPc = "exited" =>
              /\ runExit = 0
              /\ runLog = <<"stdout:banner">>

\* the adjacent pairs of `msgs`, named by the index of their second message
SenderChanges(msgs) == {i \in 2..Len(msgs) : msgs[i].from # msgs[i - 1].from}
Interval(msgs, i) == msgs[i].time - msgs[i - 1].time

IsTimeOrder(msgs) == \A i \in 2..Len(msgs) : msgs[i - 1].time <= msgs[i].time

SameRecords(s, t) ==
    /\ Len(s) = Len(t)
    /\ \A m \in {s[i] : i \in 1..Len(s)} \cup {t[i] : i \in 1..Len(t)} :
          Cardinality({i \in 1..Len(s) : s[i] = m}) = Cardinality({i \in 1..Len(t) : t[i] = m})

\* C17: after a call of computeRhythm the caller's array holds the same
\* records in the same order as before the call.
C17_InputUnchanged ==
    pc = "called" => messages = transcript

\* C18: for at least 2 messages, responseLatencies has exactly one entry for
\* each adjacent pair in timestamp order whose senders differ, in order, none
\* for a pair of the same sender, and no entry is negative.  (After the call
\* `messages` is the array in timestamp order.)
C18_LatencyPerSenderChange ==
    (pc = "called" /\ Len(transcript) >= 2) =>
        LET lat == rhythm.responseLatencies
            changes == SenderChanges(messages)
        IN  /\ IsTimeOrder(messages) /\ SameRecords(messages, transcript)
            /\ Len(lat) = Cardinality(changes)
            /\ \A i \in changes :
                  lat[Cardinality({j \in changes : j <= i})] = Interval(messages, i)
            /\ \A k \in 1..Len(lat) : lat[k] >= 0

C18_Witness ==
    /\ pc = "called" /\ Len(transcript) = 3
    /\ messages # transcript
    /\ Cardinality(SenderChanges(messages)) = 1
    /\ rhythm.responseLatencies = <<121>>

C20_GapSurvivalAlwaysOne ==
    (pc = "called" /\ Len(transcript) >= 2) => rhythm.gapSurvival = 100

C20_Witness ==
    /\ pc = "called" /\ Len(transcript) = 3
    /\ Interval(messages, 2) <= 120 /\ Interval(messages, 3) > 120
    /\ rhythm.gapsCount = 1
    /\ rhythm.gapSurvival = 100

\* C21: for stakes for and against that are not negative, the sentiment in
\* evaluateTrust's verdict is at least 0 and at most 1.
C21_SentimentInUnitInterval ==
    (evalPc = "returned" /\ chain.atomExists /\ chain.tripleExists
       /\ chain.forAssets >= 0 /\ chain.againstAssets >= 0) =>
        /\ verdict.sentiment.den > 0
        /\ 0 <= verdict.sentiment.num
        /\ verdict.sentiment.num <= verdict.sentiment.den

C21_Witness ==
    /\ evalPc = "returned" /\ chain.tripleExists
    /\ chain.forAssets = 500 /\ chain.againstAssets = 300
    /\ verdict.sentiment.num * 8 = 5 * verdict.sentiment.den

FourFields(r) ==
    <<r.avgLatency, r.gapSurvival, r.lengthVariance, r.temporalConsistency>>

BothReported == pc = "reported" /\ peer # None /\ peer.hash # None

\* C22: two rhythm records that agree on avgLatency, gapSurvival,
\* lengthVariance and temporalConsistency give the same rhythmSignature,
\* also when their messageCount, gapsCount or responseLatencies differ.
C22_SignatureOfFourFields ==
    (BothReported /\ FourFields(peer.rhythm) = FourFields(rhythm)) =>
        peer.hash.rhythmSignature = hash.rhythmSignature

C22_Witness ==
    /\ BothReported /\ peer.kind = "appended"
    /\ FourFields(peer.rhythm) = FourFields(rhythm)
    /\ peer.rhythm.messageCount # rhythm.messageCount
    /\ peer.rhythm.responseLatencies # rhythm.responseLatencies
    /\ peer.hash.rhythmSignature = hash.rhythmSignature

EarliestTime(msgs) ==
    CHOOSE t \in {msgs[i].time : i \in 1..Len(msgs)} :
        \A i \in 1..Len(msgs) : t <= msgs[i].time

\* C23: two stores whose messages agree in sender, recipient, timestamp and
\* body length, and differ in the words of a body, give the same
\* commitment, rhythmSignature and exchangeHash; and two transcripts of the
\* same agent pair with the same earliest timestamp give the same commitment.
C23_ContentNeverHashed ==
    (pc = "reported" /\ peer # None) =>
        /\ peer.kind = "rebodied" =>
              /\ peer.hash # None
              /\ SameHashes(peer.hash, hash)
              /\ peer.rhythm = rhythm
        /\ (peer.kind = "appended" /\ peer.hash # None
              /\ EarliestTime(peer.messages) = EarliestTime(messages)) =>
              peer.hash.commitment = hash.commitment

C23_Witness ==
    /\ pc = "reported" /\ peer # None /\ peer.kind = "rebodied"
    /\ Len(messages) = 2
    /\ env.files[1].body = env.files[2].body
    /\ rhythm.lengthVariance = 0
    /\ SameHashes(peer.hash, hash)

\* C24: when a file of the message store cannot be read, no exchange hash is
\* computed from the messages that remain.
C24_ReadFailureStopsPipeline ==
    (\E i \in 1..Len(env.files) : ~env.files[i].readable) => hash = None

\* C25: every message of the transcript the hash is computed from has both
\* requested agents as its sender or its recipient.
C25_OnlyMessagesOfBothAgents ==
    pc \in {"start", "reported", "exit"} =>
        \A i \in 1..Len(transcript) :
            /\ agents[1] \in {transcript[i].from, transcript[i].to}
            /\ agents[2] \in {transcript[i].from, transcript[i].to}

\* C26: attest-exchange --compute, on a transcript of at least 2 messages,
\* ends without an error and reports the exchange hash that exchange-hash.mjs
\* computes for the same agents and messages.
C26_ComputeAgreesWithExchangeHash ==
    (pc = "attested" /\ Len(transcript) >= 2) =>
        /\ attest.threw = ""
        /\ attest.exchangeHash = MainResult(transcript, agents, tz).hash.exchangeHash

\* C27: when the participatesIn atom already exists on-chain, no createAtoms
\* transaction is sent for it.
C27_PredicateCreatedOnlyIfMissing ==
    (IsCreate /\ env.predicateExists) => ~Logged("tx:createAtoms(participatesIn)")

WalletWrites == {"tx:createAtoms", "tx:createTriples", "tx:deposit"}

\* what the operation needs: the two creations and the stake, or the stake
Needed ==
    IF env.script = "quickstart" THEN QuickTotalNeeded(env.amount) ELSE env.amount

\* C28: quickstart and stake submit no write transaction when the balance
\* read at the start is below the amount the operation needs.
C28_NoWriteWhenUnderfunded ==
    (env.script \in {"quickstart", "stake-triple", "stake"} /\ env.balance < Needed) =>
        \A i \in 1..Len(runLog) : runLog[i] \notin WalletWrites

RedeemTxs == {RedeemTx(n) : n \in -1..(MaxShares + 1)}

\* C29: intuition-redeem submits a redeem only if the term exists, maxShares
\* is positive and 0 < sharesToRedeem <= maxShares; with 'all' the amount is
\* maxShares; a run that ends without a redeem ends with exit code 1.
C29_RedeemOnlyValidated ==
    env.script = "redeem" =>
        /\ \A i \in 1..Len(runLog) :
              runLog[i] \in RedeemTxs =>
                  /\ env.exists
                  /\ env.maxShares > 0
                  /\ \E n \in 1..env.maxShares : runLog[i] = RedeemTx(n)
                  /\ env.shareArg.kind = "all" => runLog[i] = RedeemTx(env.maxShares)
                  /\ env.shareArg.kind = "number" => runLog[i] = RedeemTx(env.shareArg.n)
        /\ (runPc = "exited" /\ \A i \in 1..Len(runLog) : runLog[i] \notin RedeemTxs) =>
              runExit = 1

C29_Witness ==
    /\ env.script = "redeem"
    /\ env.shareArg.kind = "all"
    /\ env.maxShares = MaxShares
    /\ Logged(RedeemTx(MaxShares))
    /\ runExit = 0

Before(a, b) ==
    \E i, j \in 1..Len(runLog) : i < j /\ runLog[i] = a /\ runLog[j] = b

\* C30: quickstart creates the triple only after an atom id was read from
\* the atom receipt and stakes only after a triple id was read from the
\* triple receipt; when an id cannot be read it exits with code 1, sends no
\* later transaction and writes no 'complete' identity file.
C30_QuickstartOrder ==
    env.script = "quickstart" =>
        /\ Logged("tx:createTriples") =>
              /\ Before("tx:createAtoms", "print:Atom ID")
              /\ Before("print:Atom ID", "tx:createTriples")
        /\ Logged("tx:deposit") =>
              /\ Before("tx:createTriples", "print:Triple ID")
              /\ Before("print:Triple ID", "tx:deposit")
        /\ Logged("file:complete") => Before("tx:deposit", "file:complete")
        /\ Logged("print:Failed to extract atom ID") =>
              /\ runExit = 1
              /\ ~Logged("tx:createTriples") /\ ~Logged("tx:deposit")
              /\ ~Logged("file:complete")
        /\ Logged("print:Failed to extract triple ID") =>
              /\ runExit = 1
              /\ ~Logged("tx:deposit")
              /\ ~Logged("file:complete")

C30_Witness ==
    /\ env.script = "quickstart"
    /\ Before("print:Atom ID", "tx:createTriples")
    /\ Logged("print:Failed to extract triple ID")
    /\ runExit = 1

====
